---------------------------- MODULE Spec2Model ----------------------------
(***************************************************************************)
(* Packet extraction pipeline of pcap-analysis (src/src/extract_packets.py *)
(* and src/src/model.py): read_pcap drives the packets of a capture        *)
(* through joblib.Parallel into read_packet, which validates the IP-layer  *)
(* attributes with the pydantic model Packet and appends one JSON line per *)
(* packet to the shared .jsonl log.                                        *)
(***************************************************************************)
EXTENDS Integers, Sequences, FiniteSets, TLC

(***************************************************************************)
(* Bounds of the model.                                                    *)
(***************************************************************************)
\* longest capture of the pipeline specification
MaxPackets == 3
\* largest worker count (n_jobs) of the pipeline specification
MaxJobs == 2
\* longest dsfield source string of the normalisation specification
MaxLen == 4

(***************************************************************************)
(* Characters and strings.  A string is a sequence of one-character        *)
(* strings.                                                                *)
(***************************************************************************)
HexDigits == {"0", "1", "a", "F"}

Alphabet == HexDigits \cup {"x", "z", "-", "_"}

DigitVal(c) ==
  CASE c = "0" -> 0
    [] c = "1" -> 1
    [] c = "a" -> 10
    [] c = "F" -> 15

StringsUpTo(n) == UNION {[1..k -> Alphabet] : k \in 0..n}

(***************************************************************************)
(* int(v, 16) of Packet.set_dsfield_int16: an optional sign, an optional   *)
(* "0x" prefix, one underscore allowed after the prefix, then hexadecimal  *)
(* digits with single underscores between them.  Anything else raises      *)
(* ValueError.  The result is [ok, val].                                   *)
(***************************************************************************)
RECURSIVE ScanDigits(_, _, _)
\* left-to-right scan of the digit part: acc is the value so far, prev the
\* previous character ("" at the start)
ScanDigits(s, acc, prev) ==
  IF s = <<>>
    THEN [ok |-> prev \in HexDigits, val |-> acc]
    ELSE IF s[1] = "_"
      THEN IF prev \in HexDigits THEN ScanDigits(Tail(s), acc, "_")
                                 ELSE [ok |-> FALSE, val |-> 0]
      ELSE IF s[1] \in HexDigits
        THEN ScanDigits(Tail(s), acc * 16 + DigitVal(s[1]), s[1])
        ELSE [ok |-> FALSE, val |-> 0]

StripPrefix(s) ==
  IF Len(s) >= 2 /\ s[1] = "0" /\ s[2] = "x"
    THEN LET t == SubSeq(s, 3, Len(s))
         IN IF t # <<>> /\ t[1] = "_" THEN Tail(t) ELSE t
    ELSE s

int16(v) ==
  LET neg  == v # <<>> /\ v[1] = "-"
      body == StripPrefix(IF neg THEN Tail(v) ELSE v)
      r    == ScanDigits(body, 0, "")
  IN IF r.ok THEN [ok |-> TRUE, val |-> IF neg THEN 0 - r.val ELSE r.val]
             ELSE [ok |-> FALSE, val |-> 0]


(***************************************************************************)
(* Decoded packets.  A packet is what pyshark hands to read_packet: which  *)
(* layers it has, the IP layer's dsfield string and flags_rb, the ports of *)
(* its UDP and TCP layers, and its sniff_timestamp.  The remaining IP      *)
(* attributes are copied to the record unchanged, as sniff_timestamp is.   *)
(***************************************************************************)
Pkt(ip, udp, tcp, ds, rb, ts) ==
  [ip |-> ip, udp |-> udp, tcp |-> tcp, dsfield |-> ds, flags_rb |-> rb,
   udp_srcport |-> 1, udp_dstport |-> 2, tcp_srcport |-> 3, tcp_dstport |-> 4,
   sniff_timestamp |-> ts]

(***************************************************************************)
(* read_packet's choice of ports (extract_packets.py:63-64).               *)
(***************************************************************************)
SrcPortTcpFirst(p) ==
  IF p.tcp THEN p.tcp_srcport ELSE IF p.udp THEN p.udp_srcport ELSE 0 - 1

SrcPort(p) ==
  IF p.udp THEN p.udp_srcport ELSE IF p.tcp THEN p.tcp_srcport ELSE 0 - 1

DstPort(p) ==
  IF p.udp THEN p.udp_dstport ELSE IF p.tcp THEN p.tcp_dstport ELSE 0 - 1

(***************************************************************************)
(* The validators of the pydantic model (model.py:47-57).                  *)
(***************************************************************************)
flags_rb_unchecked(v) == [ok |-> TRUE, val |-> v]

\* raises when v != 0, returns v otherwise
flags_rb_must_be_zero(v) == [ok |-> v = 0, val |-> v]

set_dsfield_int16(v) == int16(v)

(***************************************************************************)
(* The fields of the model in the order of their declaration               *)
(* (model.py:15-45), which is the order in which they are validated; of    *)
(* the fields that are copied unchanged only sniff_timestamp is kept.      *)
(***************************************************************************)
FieldOrder == <<"dsfield", "flags_rb", "srcport", "dstport", "sniff_timestamp">>

(***************************************************************************)
(* What a rejection raises: which validator raised and which attributes of *)
(* the packet the exception carries.  A validator is given the value of    *)
(* its own field only.  The ValueError of int(v, 16) is reported with the  *)
(* dsfield string; flags_rb_must_be_zero raises with a fixed message       *)
(* (model.py:51), and what it raises is not an error the model collects    *)
(* per field, so it leaves Packet(...) at once, whatever was found in the  *)
(* fields validated before.                                                *)
(***************************************************************************)
NoError == [by |-> "none", carries |-> {}]

Raises(ds_ok, rb_ok) ==
  IF ~rb_ok THEN [by |-> "flags_rb_must_be_zero", carries |-> {}]
  ELSE IF ~ds_ok THEN [by |-> "set_dsfield_int16", carries |-> {"dsfield"}]
  ELSE NoError

(***************************************************************************)
(* Packet(...) as read_packet calls it (extract_packets.py:50-65): the     *)
(* construction either raises or yields the validated record.              *)
(***************************************************************************)
Packet(p) ==
  LET ds == set_dsfield_int16(p.dsfield)
      rb == flags_rb_must_be_zero(p.flags_rb)
  IN [ok  |-> ds.ok /\ rb.ok,
      rec |-> [dsfield  |-> ds.val,
               flags_rb |-> rb.val,
               srcport  |-> SrcPort(p),
               dstport  |-> DstPort(p),
               sniff_timestamp |-> p.sniff_timestamp],
      err |-> Raises(ds.ok, rb.ok)]

(***************************************************************************)
(* The JSON line jsonlines writes for a record (extract_packets.py:69):    *)
(* the fields in model order, integers in decimal, a newline at the end.   *)
(***************************************************************************)
DecDigits == <<"0", "1", "2", "3", "4", "5", "6", "7", "8", "9">>

RECURSIVE Dec(_)
Dec(n) ==
  IF n < 0 THEN <<"-">> \o Dec(0 - n)
  ELSE IF n < 10 THEN <<DecDigits[n + 1]>>
  ELSE Dec(n \div 10) \o <<DecDigits[(n % 10) + 1]>>

Dumps(r) ==
  Dec(r.dsfield) \o <<",">> \o Dec(r.flags_rb) \o <<",">>
    \o Dec(r.srcport) \o <<",">> \o Dec(r.dstport) \o <<",">>
    \o Dec(r.sniff_timestamp) \o <<"\n">>


(***************************************************************************)
(* State of one call of read_pcap.                                         *)
(*   capture  the packets of the pcap file, in file order                  *)
(*   n_jobs   the effective number of workers of joblib.Parallel           *)
(*   pulled   how many packets the generator of line 92 has yielded        *)
(*   st       per packet, where its read_packet task stands                *)
(*   off      per packet, the end-of-file position its append found        *)
(*   log      the contents of the .jsonl file                              *)
(*   outcome  "running", then "returned" or "raised"                       *)
(*   snap     history: the file as it was when an append first failed      *)
(*   exists   whether the .jsonl file exists                                *)
(* and of the run of main that makes the call:                             *)
(*   opened   whether pyshark.FileCapture opened the capture of this call  *)
(*   pc       where main stands                                            *)
(*   nfile    how many capture files the loop of line 154 has taken        *)
(*   answer   what the user typed at the prompt of line 140, if asked      *)
(*   parquet  the .parquet files written so far                            *)
(*   printed  what main has printed                                        *)
(*   log0     history: the .jsonl file as main found it                    *)
(***************************************************************************)
VARIABLES capture, n_jobs, pulled, st, off, log, outcome, snap,
          exists, opened, pc, nfile, answer, parquet, printed, log0

vars == <<capture, n_jobs, pulled, st, off, log, outcome, snap,
          exists, opened, pc, nfile, answer, parquet, printed, log0>>

\* the state of main outside the call of read_pcap it is in
mainvars == <<opened, pc, nfile, answer, parquet, printed, log0>>

N == Len(capture)

\* a task a worker is executing
Running(i) == st[i] \in {"open", "close", "flush"}

\* a task whose call of read_packet raised
Raised(i) == st[i] \in {"invalid", "oserror"}

\* a task whose append failed
Failed(i) == st[i] = "oserror"

Pending(i) == st[i] = "queued" \/ Running(i)

NumRunning == Cardinality({i \in 1..N : Running(i)})

NumRaised == Cardinality({i \in 1..N : Raised(i)})

NumFailed == Cardinality({i \in 1..N : Failed(i)})

NumPending == Cardinality({i \in 1..N : Pending(i)})

(***************************************************************************)
(* How many dispatched tasks joblib keeps ahead of the workers: the        *)
(* sequential backend runs each task as it is pulled, the threading        *)
(* backend pre-dispatches 2 * n_jobs tasks.                                *)
(***************************************************************************)
PreDispatch(n) == IF n = 1 THEN 1 ELSE 2 * n

(***************************************************************************)
(* The generator expression of line 92 yields the next packet of the       *)
(* capture as a delayed read_packet call.  With one job a raised task has  *)
(* already unwound the loop that pulls.                                    *)
(***************************************************************************)
\* the generator yields the same packet again
PullNoAdvance ==
  /\ outcome = "running"
  /\ pulled < N
  /\ NumPending < PreDispatch(n_jobs)
  /\ st' = [st EXCEPT ![pulled + 1] = "queued"]
  /\ UNCHANGED <<capture, n_jobs, pulled, off, log, outcome, snap>>
  /\ UNCHANGED <<exists, mainvars>>

Pull ==
  /\ outcome = "running"
  /\ pulled < N
  /\ NumPending < PreDispatch(n_jobs)
  /\ n_jobs = 1 => NumRaised = 0
  /\ pulled' = pulled + 1
  /\ st' = [st EXCEPT ![pulled + 1] = "queued"]
  /\ UNCHANGED <<capture, n_jobs, off, log, outcome, snap>>
  /\ UNCHANGED <<exists, mainvars>>

(***************************************************************************)
(* A free worker takes the oldest queued task and runs read_packet up to   *)
(* the append (lines 49-65): a packet without an IP layer returns None, a  *)
(* packet the model rejects raises, any other has its record built.        *)
(***************************************************************************)
HasIPAlways(p) == TRUE

HasIP(p) == p.ip

\* Parallel(n_jobs=n_jobs): at most n_jobs tasks execute at a time
FreeWorker == NumRunning < n_jobs

Start(i) ==
  /\ outcome = "running"
  /\ st[i] = "queued"
  /\ \A j \in 1..(i - 1) : st[j] # "queued"
  /\ FreeWorker
  /\ n_jobs = 1 => NumRaised = 0
  /\ st' = [st EXCEPT ![i] =
              IF ~HasIP(capture[i]) THEN "done"
              ELSE IF Packet(capture[i]).ok THEN "open" ELSE "invalid"]
  /\ UNCHANGED <<capture, n_jobs, pulled, off, log, outcome, snap>>
  /\ UNCHANGED <<exists, mainvars>>

(***************************************************************************)
(* jsonlines.open(path, mode='a') and writer.write (lines 68-69): the line *)
(* goes to the writer's own buffer.  Opening can fail (OSError); opening   *)
(* in mode 'a' creates the file when it is not there.                      *)
(***************************************************************************)
OpenWrite(i) ==
  /\ st[i] = "open"
  /\ \E ok \in BOOLEAN :
       /\ st' = [st EXCEPT ![i] = IF ok THEN "close" ELSE "oserror"]
       /\ snap' = IF ok \/ NumFailed > 0 THEN snap ELSE log
       /\ exists' = (exists \/ ok)
  /\ UNCHANGED <<capture, n_jobs, pulled, off, log, outcome>>
  /\ UNCHANGED mainvars

(***************************************************************************)
(* Leaving the with block closes the writer, which flushes the buffer to   *)
(* the file opened for appending: the write is positioned at the end of    *)
(* the file and the data is written there.  Every call has its own file    *)
(* object and the source takes no lock, so nothing in the code orders the  *)
(* positioning of one append against the data write of another.  Whether   *)
(* the two happen as one step is left to the platform (an append to a      *)
(* local POSIX file does them together; the C runtime of Windows and       *)
(* network file systems do not).  The model keeps them apart, which        *)
(* includes the behaviours where they happen together.                     *)
(***************************************************************************)
SeekEnd(i) ==
  /\ st[i] = "close"
  /\ off' = [off EXCEPT ![i] = Len(log)]
  /\ st' = [st EXCEPT ![i] = "flush"]
  /\ UNCHANGED <<capture, n_jobs, pulled, log, outcome, snap>>
  /\ UNCHANGED <<exists, mainvars>>

\* mode 'w' in place of mode 'a': the file is truncated
WriteTruncating(f, o, data) == data

\* the file after data is written at position o
WriteAtPos(f, o, data) ==
  SubSeq(f, 1, o) \o data \o SubSeq(f, o + Len(data) + 1, Len(f))

WriteData(i) ==
  /\ st[i] = "flush"
  /\ \E ok \in BOOLEAN :
       IF ok
         THEN /\ log' = WriteAtPos(log, off[i], Dumps(Packet(capture[i]).rec))
              /\ st' = [st EXCEPT ![i] = "done"]
              /\ snap' = snap
         ELSE /\ log' = log
              /\ st' = [st EXCEPT ![i] = "oserror"]
              /\ snap' = IF NumFailed > 0 THEN snap ELSE log
  /\ UNCHANGED <<capture, n_jobs, pulled, off, outcome>>
  /\ UNCHANGED <<exists, mainvars>>

(***************************************************************************)
(* Parallel re-raises the exception of a task in the caller: the tasks     *)
(* still queued are dropped, read_pcap ends by raising.  Threads that are  *)
(* inside read_packet are not stopped.                                     *)
(***************************************************************************)
Abort ==
  /\ outcome = "running"
  /\ NumRaised > 0
  /\ outcome' = "raised"
  /\ st' = [i \in 1..N |-> IF st[i] = "queued" THEN "dropped" ELSE st[i]]
  /\ UNCHANGED <<capture, n_jobs, pulled, off, log, snap>>
  /\ UNCHANGED <<exists, mainvars>>

(***************************************************************************)
(* Parallel returns once the generator is exhausted and every task has     *)
(* returned; read_pcap then closes the capture and returns (lines 93-94).  *)
(***************************************************************************)
Return ==
  /\ outcome = "running"
  /\ pulled = N
  /\ \A i \in 1..N : st[i] = "done"
  /\ outcome' = "returned"
  /\ UNCHANGED <<capture, n_jobs, pulled, st, off, log, snap>>
  /\ UNCHANGED <<exists, mainvars>>

\* the steps of read_pcap: the Parallel call of line 92 and, for the packet
\* at each position i, the steps of its call of read_packet
Next ==
  \/ Pull
  \/ \E i \in 1..N : Start(i)
  \/ \E i \in 1..N : OpenWrite(i)
  \/ \E i \in 1..N : SeekEnd(i)
  \/ \E i \in 1..N : WriteData(i)
  \/ Abort
  \/ Return

(***************************************************************************)
(* Captures of the pipeline specification: every sequence of at most       *)
(* MaxPackets packets of five kinds, stamped with their position.  The two *)
(* kinds that pass validation give lines of different lengths.             *)
(***************************************************************************)
Kinds == {"noip", "udp", "bare", "bad_rb", "bad_ds"}

KindPkt(k, ts) ==
  CASE k = "noip"   -> Pkt(FALSE, FALSE, FALSE, <<"0">>, 0, ts)
    [] k = "udp"    -> Pkt(TRUE, TRUE, FALSE, <<"1", "a">>, 0, ts)
    [] k = "bare"   -> Pkt(TRUE, FALSE, FALSE, <<"0", "x", "F", "F">>, 0, ts)
    [] k = "bad_rb" -> Pkt(TRUE, FALSE, TRUE, <<"0", "x", "0">>, 1, ts)
    [] k = "bad_ds" -> Pkt(TRUE, FALSE, FALSE, <<"z", "z">>, 0, ts)

Captures ==
  UNION {{[i \in 1..n |-> KindPkt(ks[i], i)] : ks \in [1..n -> Kinds]}
           : n \in 0..MaxPackets}

\* read_pcap called on an opened capture, with no log file there yet
InitRun(c, n) ==
  /\ capture = c
  /\ n_jobs = n
  /\ pulled = 0
  /\ st = [i \in 1..Len(c) |-> "none"]
  /\ off = [i \in 1..Len(c) |-> 0]
  /\ log = <<>>
  /\ outcome = "running"
  /\ snap = <<>>
  /\ exists = FALSE
  /\ opened = TRUE
  /\ pc = "read"
  /\ nfile = 1
  /\ answer = "none"
  /\ parquet = <<>>
  /\ printed = <<>>
  /\ log0 = [exists |-> FALSE, content |-> <<>>]

Init == \E c \in Captures, n \in 1..MaxJobs : InitRun(c, n)

Spec == Init /\ [][Next]_vars

(***************************************************************************)
(* The normalisation specification: read_pcap with one job on a capture of *)
(* one packet, drawn from every dsfield string of at most MaxLen           *)
(* characters and from every combination of layers and flags_rb.           *)
(***************************************************************************)
HexCases ==
  {Pkt(TRUE, TRUE, FALSE, ds, 0, 1) : ds \in StringsUpTo(MaxLen)}

LayerCases ==
  {Pkt(ip, u, t, <<"1", "a">>, rb, 1) :
     ip \in BOOLEAN, u \in BOOLEAN, t \in BOOLEAN, rb \in 0..1}

\* packets that fail both validators
RejectCases ==
  {Pkt(TRUE, u, TRUE, ds, 1, 1) :
     u \in BOOLEAN, ds \in {<<>>, <<"z", "z">>, <<"0", "x">>}}

InitNorm ==
  \E p \in HexCases \cup LayerCases \cup RejectCases : InitRun(<<p>>, 1)

SpecNorm == InitNorm /\ [][Next]_vars


(***************************************************************************)
(* Reading the log back, as a newline-delimited JSON reader does (the      *)
(* read_ndjson of extract_packets.py:166): the complete lines, what        *)
(* follows the last newline, and the record of a line.                     *)
(***************************************************************************)
RECURSIVE SplitAcc(_, _, _)
SplitAcc(s, sep, cur) ==
  IF s = <<>> THEN <<cur>>
  ELSE IF s[1] = sep THEN <<cur>> \o SplitAcc(Tail(s), sep, <<>>)
  ELSE SplitAcc(Tail(s), sep, Append(cur, s[1]))

Lines(f) == LET sg == SplitAcc(f, "\n", <<>>) IN SubSeq(sg, 1, Len(sg) - 1)

Rest(f) == LET sg == SplitAcc(f, "\n", <<>>) IN sg[Len(sg)]

RECURSIVE DecValue(_, _)
DecValue(t, acc) ==
  IF t = <<>> THEN acc
  ELSE DecValue(Tail(t),
                acc * 10 + (CHOOSE d \in 0..9 : DecDigits[d + 1] = t[1]))

ParseDec(t) ==
  LET neg == t # <<>> /\ t[1] = "-"
      ds  == IF neg THEN Tail(t) ELSE t
      ok  == ds # <<>> /\ \A k \in 1..Len(ds) : \E d \in 0..9 : DecDigits[d + 1] = ds[k]
      v   == IF ok THEN DecValue(ds, 0) ELSE 0
  IN [ok |-> ok /\ Dec(IF neg THEN 0 - v ELSE v) = t,
      val |-> IF neg THEN 0 - v ELSE v]

ParseLine(l) ==
  LET fs == SplitAcc(l, ",", <<>>)
      ok == Len(fs) = 5 /\ \A k \in 1..5 : ParseDec(fs[k]).ok
  IN [ok  |-> ok,
      rec |-> IF ok
                THEN [dsfield  |-> ParseDec(fs[1]).val,
                      flags_rb |-> ParseDec(fs[2]).val,
                      srcport  |-> ParseDec(fs[3]).val,
                      dstport  |-> ParseDec(fs[4]).val,
                      sniff_timestamp |-> ParseDec(fs[5]).val]
                ELSE [dsfield |-> 0, flags_rb |-> 0, srcport |-> 0,
                      dstport |-> 0, sniff_timestamp |-> 0]]

\* pl.read_ndjson (line 166): one row per line of the file; it raises when
\* the file is not there, holds no line, or holds a line that is no record
read_ndjson(ex, f) ==
  LET ls == Lines(f)
      ok == /\ ex
            /\ ls # <<>>
            /\ Rest(f) = <<>>
            /\ \A k \in 1..Len(ls) : ParseLine(ls[k]).ok
  IN [ok   |-> ok,
      rows |-> IF ok THEN [k \in 1..Len(ls) |-> ParseLine(ls[k]).rec] ELSE <<>>]


(***************************************************************************)
(* main (extract_packets.py:102-166), from the point where the data        *)
(* directory was found (line 134).  The capture files the glob of line 154 *)
(* yields are drawn as the loop reaches them: at most MaxFiles files of at *)
(* most MaxMainPackets packets each, the packets of the f-th file stamped  *)
(* 10 * f + 1, 10 * f + 2, ...                                             *)
(***************************************************************************)
MaxFiles == 2

MaxMainPackets == 1

\* the kinds of packets in the capture files of main: skipped, recorded,
\* rejected
MainKinds == {"noip", "udp", "bad_rb"}

MainCaptures(f) ==
  UNION {{[i \in 1..n |-> KindPkt(ks[i], 10 * f + i)] : ks \in [1..n -> MainKinds]}
           : n \in 0..MaxMainPackets}

\* what the user may type at the prompt of line 140
Answers == {"y", "Y", "", "n", "N", "yes", "q"}

\* the .jsonl file main may find: none, an empty one, one holding a record
\* of an earlier run (stamped 0)
OldLogs ==
  {[exists |-> FALSE, content |-> <<>>],
   [exists |-> TRUE,  content |-> <<>>],
   [exists |-> TRUE,  content |-> Dumps(Packet(KindPkt("bare", 0)).rec)]}

\* a line main prints, and the file it is about (0 when about none)
Msg(m, f) == [msg |-> m, file |-> f]

\* the match statement of lines 141-150
Match(a) ==
  IF a \in {"y", "Y", ""} THEN "remove"
  ELSE IF a \in {"n", "N"} THEN "abort"
  ELSE "raise"

\* the unlink of line 144 left out
unlink_skipped(f) == f

\* jsonl_path.unlink (line 144): the file is gone
unlink(f) == [exists |-> FALSE, content |-> <<>>]

\* lines 136-137: is there a pcap.jsonl already?  If not, on to the loop.
CheckLog ==
  /\ pc = "start"
  /\ pc' = IF exists THEN "ask" ELSE "loop"
  /\ printed' = IF exists THEN printed ELSE Append(printed, Msg("blank", 0))
  /\ UNCHANGED <<capture, n_jobs, pulled, st, off, log, outcome, snap>>
  /\ UNCHANGED <<exists, opened, nfile, answer, parquet, log0>>

(***************************************************************************)
(* Lines 140-150: the user answers the prompt.  'y', 'Y' or nothing        *)
(* removes the file (which can fail, OSError), 'n' or 'N' makes main       *)
(* return, anything else makes it raise.                                   *)
(***************************************************************************)
Answer ==
  /\ pc = "ask"
  /\ \E a \in Answers, ok \in BOOLEAN :
       /\ answer' = a
       /\ CASE Match(a) = "remove" /\ ok ->
                 /\ exists' = unlink([exists |-> exists, content |-> log]).exists
                 /\ log' = unlink([exists |-> exists, content |-> log]).content
                 /\ printed' = Append(printed, Msg("blank", 0))
                 /\ pc' = "loop"
            [] Match(a) = "remove" /\ ~ok ->
                 /\ pc' = "raised"
                 /\ UNCHANGED <<exists, log, printed>>
            [] Match(a) = "abort" ->
                 /\ printed' = Append(printed, Msg("abort", 0))
                 /\ pc' = "returned"
                 /\ UNCHANGED <<exists, log>>
            [] Match(a) = "raise" ->
                 /\ pc' = "raised"
                 /\ UNCHANGED <<exists, log, printed>>
  /\ UNCHANGED <<capture, n_jobs, pulled, st, off, outcome, snap>>
  /\ UNCHANGED <<opened, nfile, parquet, log0>>

\* FileCapture's failure to open left unnoticed
OpenOutcomeIgnored(ok) == "running"

\* with pyshark.FileCapture(path) as pcap (line 91): the body of the with
\* statement runs when the capture opens; when it does not, read_pcap raises
OpenOutcome(ok) == IF ok THEN "running" ELSE "raised"

(***************************************************************************)
(* Lines 154-156 and 90-91: the loop takes the next capture file, prints   *)
(* its name and calls read_pcap, which opens the capture.                  *)
(***************************************************************************)
NextCapture ==
  /\ pc = "loop"
  /\ nfile < MaxFiles
  /\ \E c \in MainCaptures(nfile + 1), ok \in BOOLEAN :
       /\ capture' = c
       /\ st' = [i \in 1..Len(c) |-> "none"]
       /\ off' = [i \in 1..Len(c) |-> 0]
       /\ opened' = ok
       /\ outcome' = OpenOutcome(ok)
  /\ nfile' = nfile + 1
  /\ pulled' = 0
  /\ snap' = <<>>
  /\ printed' = Append(printed, Msg("reading", nfile + 1))
  /\ pc' = "read"
  /\ UNCHANGED <<n_jobs, log, exists, answer, parquet, log0>>

\* the exception read_pcap ended with leaves main (line 156)
ReadRaised ==
  /\ pc = "read"
  /\ outcome = "raised"
  /\ pc' = "raised"
  /\ UNCHANGED <<capture, n_jobs, pulled, st, off, log, outcome, snap>>
  /\ UNCHANGED <<exists, opened, nfile, answer, parquet, printed, log0>>

(***************************************************************************)
(* Lines 160-166: read_pcap has returned; main prints the time it took and *)
(* writes the .parquet file of this capture from the whole .jsonl file.    *)
(***************************************************************************)
Export ==
  /\ pc = "read"
  /\ outcome = "returned"
  /\ printed' = printed \o <<Msg("blank", 0), Msg("time", nfile),
                             Msg("blank", 0), Msg("blank", 0)>>
  /\ LET df == read_ndjson(exists, log)
     IN IF df.ok
          THEN /\ parquet' = Append(parquet, [file |-> nfile, rows |-> df.rows])
               /\ pc' = "loop"
          ELSE /\ parquet' = parquet
               /\ pc' = "raised"
  /\ UNCHANGED <<capture, n_jobs, pulled, st, off, log, outcome, snap>>
  /\ UNCHANGED <<exists, opened, nfile, answer, log0>>

\* the glob of line 154 has no further file: main returns
MainReturn ==
  /\ pc = "loop"
  /\ pc' = "returned"
  /\ UNCHANGED <<capture, n_jobs, pulled, st, off, log, outcome, snap>>
  /\ UNCHANGED <<exists, opened, nfile, answer, parquet, printed, log0>>

NextMain ==
  \/ CheckLog
  \/ Answer
  \/ NextCapture
  \/ Pull
  \/ \E i \in 1..N : Start(i)
  \/ \E i \in 1..N : OpenWrite(i)
  \/ \E i \in 1..N : SeekEnd(i)
  \/ \E i \in 1..N : WriteData(i)
  \/ Abort
  \/ Return
  \/ ReadRaised
  \/ Export
  \/ MainReturn

InitMain ==
  \E n \in 1..MaxJobs, l0 \in OldLogs :
    /\ capture = <<>>
    /\ n_jobs = n
    /\ pulled = 0
    /\ st = <<>>
    /\ off = <<>>
    /\ log = l0.content
    /\ outcome = "idle"
    /\ snap = <<>>
    /\ exists = l0.exists
    /\ opened = FALSE
    /\ pc = "start"
    /\ nfile = 0
    /\ answer = "none"
    /\ parquet = <<>>
    /\ printed = <<>>
    /\ log0 = l0

SpecMain == InitMain /\ [][NextMain]_vars


(***************************************************************************)
(* Vocabulary of the properties.                                           *)
(***************************************************************************)
\* the line read_packet writes for packet i, without its newline
EntryOf(i) == LET d == Dumps(Packet(capture[i]).rec) IN SubSeq(d, 1, Len(d) - 1)

\* packet i carries an IP layer and passes validation
Valid(i) == capture[i].ip /\ Packet(capture[i]).ok

\* packet i carries an IP layer and the model rejects it
Rejected(i) == capture[i].ip /\ ~Packet(capture[i]).ok

\* the append of packet i has completed
Appended(i) == capture[i].ip /\ st[i] = "done"

InLog(i) == \E k \in 1..Len(Lines(log)) : Lines(log)[k] = EntryOf(i)

Ended == outcome \in {"returned", "raised"}

\* the call has ended and no thread is inside read_packet any more
Quiescent == Ended /\ NumRunning = 0

NoSinkFailure == NumFailed = 0

IsPrefix(a, b) == Len(a) <= Len(b) /\ SubSeq(b, 1, Len(a)) = a

(***************************************************************************)
(* What the run with one job leaves in an empty log: the lines of the      *)
(* IP-bearing packets in capture order, up to the first packet the model   *)
(* rejects, whose exception ends the run.                                  *)
(***************************************************************************)
RECURSIVE SeqRun(_, _)
SeqRun(c, i) ==
  IF i > Len(c) THEN <<>>
  ELSE IF ~c[i].ip THEN SeqRun(c, i + 1)
  ELSE IF Packet(c[i]).ok THEN <<Dumps(Packet(c[i]).rec)>> \o SeqRun(c, i + 1)
  ELSE <<>>

RECURSIVE Flatten(_)
Flatten(ss) == IF ss = <<>> THEN <<>> ELSE ss[1] \o Flatten(Tail(ss))

\* the multiset of the elements of a sequence, as a function to counts
BagOf(ss) ==
  [x \in {ss[k] : k \in 1..Len(ss)} |-> Cardinality({k \in 1..Len(ss) : ss[k] = x})]

(***************************************************************************)
(* C1.  Appends are atomic with respect to each other: once every worker   *)
(* has finished, the log holds exactly one complete entry per completed    *)
(* append, each equal to an appended record, none truncated, merged or     *)
(* lost.  Stated as the claim has it; the code violates it.                *)
(***************************************************************************)
C1_AppendsAtomic ==
  Quiescent =>
    /\ Rest(log) = <<>>
    /\ Len(Lines(log)) = Cardinality({i \in 1..N : Appended(i)})
    /\ \A i \in 1..N : Appended(i) => InLog(i)
    /\ \A k \in 1..Len(Lines(log)) :
         \E i \in 1..N : Appended(i) /\ Lines(log)[k] = EntryOf(i)

(***************************************************************************)
(* C2.  With more than one job, and no append failing, the finished run    *)
(* leaves the same multiset of records as the run with one job on the same *)
(* capture.  Stated as the claim has it; the code violates it.             *)
(***************************************************************************)
C2_ParallelSameBag ==
  (n_jobs > 1 /\ Quiescent /\ NoSinkFailure) =>
    /\ Rest(log) = <<>>
    /\ BagOf(Lines(log)) = BagOf(Lines(Flatten(SeqRun(capture, 1))))

(***************************************************************************)
(* C3.  A rejected packet does not halt the run: when read_pcap has ended  *)
(* on a capture with a rejected packet, and no append failed, every valid  *)
(* IP-bearing packet has its record in the log.  Stated as the claim has   *)
(* it; the code violates it.                                               *)
(***************************************************************************)
C3_RejectionDoesNotHalt ==
  (Quiescent /\ NoSinkFailure /\ \E j \in 1..N : Rejected(j)) =>
    \A i \in 1..N : Valid(i) => InLog(i)

(***************************************************************************)
(* C4.  Drain and shutdown: a call that has ended without an append        *)
(* failure has returned, has pulled every packet of the capture and has no *)
(* worker task unfinished.  Stated as the claim has it; the code violates  *)
(* it.                                                                     *)
(***************************************************************************)
C4_DrainedOnReturn ==
  (Ended /\ NoSinkFailure) =>
    /\ outcome = "returned"
    /\ pulled = N
    /\ \A i \in 1..N : st[i] = "done"


(***************************************************************************)
(* C5.  With one job the run is sequential and deterministic: the entries  *)
(* of the log are in the order in which their packets were decoded, at     *)
(* every moment the log is a prefix of the one sequence the capture        *)
(* determines, and a run that ends without an append failure leaves        *)
(* exactly that sequence.                                                  *)
(***************************************************************************)
C5_SequentialDeterministic ==
  n_jobs = 1 =>
    /\ Rest(log) = <<>>
    /\ \A k \in 1..Len(Lines(log)) : ParseLine(Lines(log)[k]).ok
    /\ \A k, m \in 1..Len(Lines(log)) :
         k < m => ParseLine(Lines(log)[k]).rec.sniff_timestamp
                    < ParseLine(Lines(log)[m]).rec.sniff_timestamp
    /\ IsPrefix(log, Flatten(SeqRun(capture, 1)))
    /\ (Ended /\ NoSinkFailure) => log = Flatten(SeqRun(capture, 1))

C5_Witness ==
  /\ n_jobs = 1
  /\ outcome = "returned"
  /\ Len(Lines(log)) >= 2
  /\ \E i \in 1..N : ~capture[i].ip

(***************************************************************************)
(* C6.  Every record in the log has flags_rb = 0, and a packet whose       *)
(* flags_rb is not 0 is rejected: its task never reaches the append and no *)
(* entry of the log carries its timestamp.                                 *)
(***************************************************************************)
C6_FlagsRbZero ==
  /\ \A k \in 1..Len(Lines(log)) :
       ParseLine(Lines(log)[k]).ok => ParseLine(Lines(log)[k]).rec.flags_rb = 0
  /\ \A i \in 1..N :
       (capture[i].ip /\ capture[i].flags_rb # 0) =>
         /\ st[i] \in {"none", "queued", "dropped", "invalid"}
         /\ \A k \in 1..Len(Lines(log)) :
              ParseLine(Lines(log)[k]).ok =>
                ParseLine(Lines(log)[k]).rec.sniff_timestamp # i

C6_Witness ==
  /\ \E i \in 1..N : capture[i].flags_rb # 0 /\ st[i] = "invalid"
  /\ \E k \in 1..Len(Lines(log)) : ParseLine(Lines(log)[k]).ok

(***************************************************************************)
(* C7.  A packet without an IP layer is neither recorded nor rejected: its *)
(* task only ever returns None, without reaching the append, and no entry  *)
(* carries its timestamp.  Neither the completed appends nor the lines of  *)
(* the log ever outnumber the IP-bearing packets pulled so far.            *)
(***************************************************************************)
C7_NoIpNoRecord ==
  /\ \A i \in 1..N :
       ~capture[i].ip =>
         /\ st[i] \in {"none", "queued", "dropped", "done"}
         /\ \A k \in 1..Len(Lines(log)) :
              ParseLine(Lines(log)[k]).ok =>
                ParseLine(Lines(log)[k]).rec.sniff_timestamp # i
  /\ Len(Lines(log)) <= Cardinality({i \in 1..pulled : capture[i].ip})
  /\ Cardinality({i \in 1..N : Appended(i)})
       <= Cardinality({i \in 1..pulled : capture[i].ip})

C7_Witness ==
  /\ \E i \in 1..N : ~capture[i].ip /\ st[i] = "done"
  /\ Len(Lines(log)) >= 1
  /\ Len(Lines(log)) = Cardinality({i \in 1..pulled : capture[i].ip})

(***************************************************************************)
(* C8.  Port selection: the record written for an IP-bearing packet has    *)
(* the UDP layer's two ports when the packet has a UDP layer, whether or   *)
(* not it has a TCP layer too, else the TCP layer's two ports when it has  *)
(* a TCP layer, else -1 and -1.                                            *)
(***************************************************************************)
C8_PortSelection ==
  \A i \in 1..N :
    Appended(i) =>
      \E k \in 1..Len(Lines(log)) :
        LET e == ParseLine(Lines(log)[k])
            p == capture[i]
        IN /\ e.ok
           /\ e.rec.sniff_timestamp = p.sniff_timestamp
           /\ p.udp => (e.rec.srcport = p.udp_srcport /\ e.rec.dstport = p.udp_dstport)
           /\ (~p.udp /\ p.tcp) =>
                (e.rec.srcport = p.tcp_srcport /\ e.rec.dstport = p.tcp_dstport)
           /\ (~p.udp /\ ~p.tcp) => (e.rec.srcport = 0 - 1 /\ e.rec.dstport = 0 - 1)

C8_Witness ==
  /\ N = 1
  /\ capture[1].ip /\ capture[1].udp /\ capture[1].tcp
  /\ st[1] = "done"
  /\ Len(Lines(log)) = 1
  /\ ParseLine(Lines(log)[1]).rec.srcport = 1

(***************************************************************************)
(* Hexadecimal strings, stated apart from the parser: the digits of the    *)
(* strict form (an optional "0x", then hexadecimal digits), the form       *)
(* int(v, 16) accepts (an optional "-", an optional "0x", hexadecimal      *)
(* digits with single underscores allowed between them and after the       *)
(* prefix), and the value of a digit string, from its last digit up.       *)
(***************************************************************************)
IsHex(c) == c \in HexDigits

AllHex(s) == s # <<>> /\ \A k \in 1..Len(s) : IsHex(s[k])

PlainHex(s) ==
  \/ AllHex(s)
  \/ Len(s) > 2 /\ s[1] = "0" /\ s[2] = "x" /\ AllHex(SubSeq(s, 3, Len(s)))

Grouped(s) ==
  /\ s # <<>>
  /\ IsHex(s[1]) /\ IsHex(s[Len(s)])
  /\ \A k \in 1..Len(s) : IsHex(s[k]) \/ s[k] = "_"
  /\ \A k \in 1..(Len(s) - 1) : ~(s[k] = "_" /\ s[k + 1] = "_")

Signs == {<<>>, <<"-">>}

Prefixes == {<<>>, <<"0", "x">>, <<"0", "x", "_">>}

Accepted(s) ==
  \E sg \in Signs, px \in Prefixes :
    /\ Len(s) > Len(sg) + Len(px)
    /\ SubSeq(s, 1, Len(sg) + Len(px)) = sg \o px
    /\ Grouped(SubSeq(s, Len(sg) + Len(px) + 1, Len(s)))

RECURSIVE HexValue(_)
HexValue(d) ==
  IF d = <<>> THEN 0
  ELSE DigitVal(d[Len(d)]) + 16 * HexValue(SubSeq(d, 1, Len(d) - 1))

\* the value of an accepted string: sign times the value of its digits
AcceptedValue(s) ==
  LET neg == s[1] = "-"
      t   == IF neg THEN Tail(s) ELSE s
      b   == IF Len(t) >= 2 /\ t[2] = "x" THEN SubSeq(t, 3, Len(t)) ELSE t
      v   == HexValue(SelectSeq(b, IsHex))
  IN IF neg THEN 0 - v ELSE v

\* the task of packet i went past validation
PastValidation(i) == st[i] \in {"open", "close", "flush", "done", "oserror"}

\* the log has a well-formed entry for packet i with dsfield v
LoggedDsfield(i, v) ==
  \E k \in 1..Len(Lines(log)) :
    LET e == ParseLine(Lines(log)[k])
    IN e.ok /\ e.rec.sniff_timestamp = i /\ e.rec.dsfield = v

NoEntryFor(i) ==
  \A k \in 1..Len(Lines(log)) :
    LET e == ParseLine(Lines(log)[k])
    IN e.ok => e.rec.sniff_timestamp # i

(***************************************************************************)
(* C9, as the claim has it: a hexadecimal string, with or without "0x",    *)
(* gives its base-16 value as the record's dsfield, and every other string *)
(* is rejected, with no record written.  The code violates the second      *)
(* half: int(v, 16) also accepts a sign and underscores.                   *)
(***************************************************************************)
C9_OnlyPlainHexAccepted ==
  \A i \in 1..N :
    LET p == capture[i] IN
    (p.ip /\ p.flags_rb = 0) =>
      /\ PlainHex(p.dsfield) =>
           /\ st[i] # "invalid"
           /\ Appended(i) =>
                LoggedDsfield(i, HexValue(SelectSeq(p.dsfield, IsHex)) )
      /\ ~PlainHex(p.dsfield) => (~PastValidation(i) /\ NoEntryFor(i))

(***************************************************************************)
(* C9, what the code does: a string of the form int(v, 16) accepts (an     *)
(* optional sign, an optional "0x", hexadecimal digits with single         *)
(* underscores between them or after the prefix) gives its signed base-16  *)
(* value as the record's dsfield, so "1a" gives 26, "0xFF" gives 255 and   *)
(* "-1a" gives -26; every other string, "zz" among them, is rejected and   *)
(* no record for it is written.                                            *)
(***************************************************************************)
C9_DsfieldBase16 ==
  \A i \in 1..N :
    LET p == capture[i] IN
    (p.ip /\ p.flags_rb = 0) =>
      /\ Accepted(p.dsfield) =>
           /\ st[i] # "invalid"
           /\ Appended(i) => LoggedDsfield(i, AcceptedValue(p.dsfield))
      /\ ~Accepted(p.dsfield) => (~PastValidation(i) /\ NoEntryFor(i))
      /\ (p.dsfield = <<"1", "a">> /\ Appended(i)) => LoggedDsfield(i, 26)
      /\ (p.dsfield = <<"0", "x", "F", "F">> /\ Appended(i)) => LoggedDsfield(i, 255)
      /\ p.dsfield = <<"z", "z">> => (~PastValidation(i) /\ NoEntryFor(i))

C9_Witness ==
  /\ N = 1
  /\ capture[1].dsfield = <<"0", "x", "F", "F">>
  /\ st[1] = "done"
  /\ LoggedDsfield(1, 255)

(***************************************************************************)
(* C10.  A failed append is fatal and nothing is rolled back: once an      *)
(* append has failed the call does not return normally, and when the run   *)
(* is over every entry that was complete in the file at the first failure  *)
(* is still there, unchanged.  Stated as the claim has it; the code        *)
(* violates it.                                                            *)
(***************************************************************************)
C10_FailedAppendFatalNoRollback ==
  ~NoSinkFailure =>
    /\ outcome # "returned"
    /\ Quiescent => IsPrefix(Lines(snap), Lines(log))


(***************************************************************************)
(* Vocabulary of the properties of main.                                   *)
(***************************************************************************)
\* the records of a log, line by line
Records(f) == [k \in 1..Len(Lines(f)) |-> ParseLine(Lines(f)[k]).rec]

RecordFields == {"dsfield", "flags_rb", "srcport", "dstport", "sniff_timestamp"}

\* read_pcap has returned for the current capture and main has gone past
\* the export of line 166
Exported == outcome = "returned" /\ pc # "read"

MainEnded == pc \in {"returned", "raised"}

(***************************************************************************)
(* C11.  Exporter round trip: once read_pcap has returned and main has     *)
(* gone past the export, the snapshot of the capture is written, from a    *)
(* log of K records (K >= 0) it has exactly K rows, one column per record  *)
(* field, and the multiset of its rows is the multiset of the log's        *)
(* records.  Stated as the claim has it; the code violates it for K = 0.   *)
(***************************************************************************)
C11_ExporterRoundTrip ==
  Exported =>
    /\ Len(parquet) = nfile
    /\ parquet[nfile].file = nfile
    /\ Len(parquet[nfile].rows) = Len(Lines(log))
    /\ \A k \in 1..Len(parquet[nfile].rows) :
         DOMAIN parquet[nfile].rows[k] = RecordFields
    /\ BagOf(parquet[nfile].rows) = BagOf(Records(log))


(***************************************************************************)
(* C12.  When a run of main that read a capture returns, it has printed a  *)
(* final summary whose figures match the run of the last capture: seen is  *)
(* the number of packets pulled, written the number of entries appended,   *)
(* rejected the number of packets the model rejected.  Stated as the claim *)
(* has it; the code violates it: main prints the name of each capture and  *)
(* the time read_pcap took, and nothing else.                              *)
(***************************************************************************)
C12_FinalSummary ==
  (pc = "returned" /\ nfile >= 1) =>
    \E k \in 1..Len(printed) :
      /\ printed[k].msg = "summary"
      /\ printed[k] = [msg      |-> "summary",
                       file     |-> nfile,
                       seen     |-> pulled,
                       written  |-> Cardinality({i \in 1..N : Appended(i)}),
                       rejected |-> Cardinality({i \in 1..N : st[i] = "invalid"})]


(***************************************************************************)
(* C13.  When the capture cannot be opened, the run for it fails before    *)
(* any work starts: read_pcap has raised, no packet was pulled or handed   *)
(* to a worker, the failure leaves main (no export, no further capture),   *)
(* and from the failed open on no step changes the log.                    *)
(***************************************************************************)
SourceOpenFailure == nfile >= 1 /\ ~opened

C13_SourceOpenFailureFatal ==
  /\ [](SourceOpenFailure =>
          /\ outcome = "raised"
          /\ pulled = 0
          /\ \A i \in 1..N : st[i] = "none"
          /\ pc \in {"read", "raised"}
          /\ Len(parquet) = nfile - 1)
  /\ [][SourceOpenFailure' => (log' = log /\ exists' = exists)]_vars

C13_Witness ==
  /\ SourceOpenFailure
  /\ pc = "raised"
  /\ nfile = 2
  /\ N = 1 /\ Valid(1)
  /\ Len(Lines(log)) = 1


EntryCount(i) ==
  Cardinality({k \in 1..Len(Lines(log)) : Lines(log)[k] = EntryOf(i)})

(***************************************************************************)
(* C15.  Exactly-once recording: when read_pcap has returned, every        *)
(* IP-bearing packet that passes validation has exactly one entry in the   *)
(* log, whatever the number of jobs and the interleaving.  Stated as the   *)
(* claim has it; the code violates it with more than one job.              *)
(***************************************************************************)
C15_ExactlyOnce ==
  outcome = "returned" =>
    \A i \in 1..N : Valid(i) => EntryCount(i) = 1

(***************************************************************************)
(* C16.  The log is append-only during extraction: across every step of    *)
(* read_pcap the complete entries already in the log are a prefix of those *)
(* in the next state.  Stated as the claim has it; the code violates it    *)
(* with more than one job.                                                 *)
(***************************************************************************)
C16_AppendOnly ==
  [][IsPrefix(Lines(log), Lines(log'))]_vars


(***************************************************************************)
(* C17.  Rejection kinds: a packet whose dsfield does not parse is         *)
(* rejected by the dsfield parse (MalformedField), also when its flags_rb  *)
(* is not 0; a packet whose only fault is flags_rb # 0 is rejected by the  *)
(* flags_rb check (InvariantViolation) and the rejection carries the       *)
(* packet's timestamp and source and destination; the flags_rb check comes *)
(* after every other field.  Stated as the claim has it; the code violates *)
(* it.                                                                     *)
(***************************************************************************)
C17_RejectionKinds ==
  \A i \in 1..N :
    st[i] = "invalid" =>
      LET p == capture[i]
          e == Packet(p).err
      IN /\ ~int16(p.dsfield).ok => e.by = "set_dsfield_int16"
         /\ (int16(p.dsfield).ok /\ p.flags_rb # 0) =>
              /\ e.by = "flags_rb_must_be_zero"
              /\ {"sniff_timestamp", "src", "dst"} \subseteq e.carries
         /\ FieldOrder[Len(FieldOrder)] = "flags_rb"


(***************************************************************************)
(* C18.  Each capture file is processed independently: every row of the    *)
(* snapshot written for a capture is a record of a packet of that capture  *)
(* (the packets of the f-th file are stamped 10 * f + i), none comes from  *)
(* a capture read earlier in the run, and once the capture is exported its *)
(* snapshot holds exactly the records appended for its packets.  Stated as *)
(* the claim has it; the code violates it.                                 *)
(***************************************************************************)
C18_CapturesIndependent ==
  /\ \A k \in 1..Len(parquet) :
       \A r \in 1..Len(parquet[k].rows) :
         parquet[k].rows[r].sniff_timestamp \div 10 = parquet[k].file
  /\ (Exported /\ Len(parquet) = nfile) =>
       /\ \A r \in 1..Len(parquet[nfile].rows) :
            \E i \in 1..N :
              Appended(i) /\ parquet[nfile].rows[r] = Packet(capture[i]).rec
       /\ \A i \in 1..N :
            Appended(i) =>
              \E r \in 1..Len(parquet[nfile].rows) :
                parquet[nfile].rows[r] = Packet(capture[i]).rec


\* main has read no capture, and the log is as main found it
Untouched ==
  /\ nfile = 0
  /\ outcome = "idle"
  /\ parquet = <<>>
  /\ exists = log0.exists
  /\ log = log0.content

(***************************************************************************)
(* C19.  main never extracts into a log that was there before: it asks     *)
(* only when the log exists; on 'y', 'Y' or an empty answer the log is     *)
(* deleted before any capture is read; on 'n' or 'N' main has returned     *)
(* with the log and the other files as they were and no capture read; on   *)
(* any other answer it has raised, with the log as it was and no capture   *)
(* read.  Hence the log is absent and empty until the first packet of the  *)
(* first capture is processed, and no entry of the old log is ever among   *)
(* the entries of a log that a capture was read into.                      *)
(***************************************************************************)
C19_NeverIntoExistingLog ==
  /\ (pc = "ask" \/ answer # "none") => log0.exists
  /\ pc \in {"start", "ask"} => (Untouched /\ answer = "none")
  /\ answer \in {"y", "Y", ""} =>
       (pc = "raised" /\ Untouched) \/ (nfile = 0 => (pc = "loop" \/ pc = "returned") /\ ~exists /\ log = <<>>)
  /\ answer \in {"n", "N"} => (pc = "returned" /\ Untouched)
  /\ answer \notin {"none", "y", "Y", "", "n", "N"} => (pc = "raised" /\ Untouched)
  /\ nfile >= 1 =>
       /\ log0.exists => answer \in {"y", "Y", ""}
       /\ \A k \in 1..Len(Lines(log)) :
            \A m \in 1..Len(Lines(log0.content)) :
              Lines(log)[k] # Lines(log0.content)[m]
  /\ (nfile = 1 /\ \A i \in 1..N : st[i] \in {"none", "queued"}) =>
       (~exists /\ log = <<>>)

C19_Witness ==
  /\ log0.exists
  /\ log0.content # <<>>
  /\ answer = "Y"
  /\ nfile = 1
  /\ N = 1 /\ st[1] = "done"
  /\ Len(Lines(log)) = 1
  /\ ParseLine(Lines(log)[1]).rec.sniff_timestamp = 11

=============================================================================
